---- MODULE Spec2Model ----
(***************************************************************************)
(* The "create source/header pair" wizard of vscode-clangd.                *)
(*                                                                         *)
(* The repository holds four versions of the create flow:                  *)
(*   "v1"  PairCreator            src/src/create-source-header-pair.ts:73  *)
(*   "v2"  PairCreator            src/src/create-source-header-pair.ts:785 *)
(*   "v3"  PairCreator+Service/UI src/unnamed/part_000:152..873            *)
(*   "v4"  CreatePairCoordinator  src/unnamed/part_000:1104..2177          *)
(* The variable version says which one runs; it never changes.  Where the  *)
(* versions agree a definition is mapped to v4, the one most often cited.  *)
(*                                                                         *)
(* All files live in one directory, so a path is <<baseName, extension>>.  *)
(* Labels and descriptions of rules are display text only and are left out *)
(* of the rule records.                                                    *)
(***************************************************************************)
EXTENDS Integers, Sequences, FiniteSets, TLC

VARIABLES
  version,     \* which of the four versions of the create flow runs
  editor,      \* vscode.window.activeTextEditor: kind, name, ext, languageId
  folders,     \* number of vscode.workspace.workspaceFolders
  fs,          \* the directory: path -> content, or Absent
  unstatable,  \* paths whose fs.stat rejects although the file may exist
  cache,       \* PairCreatorService.fileStatCache (v3, v4): path -> "none"/"yes"/"no"
  rules,       \* clangd.createPair.rules per scope: a rule list, or not set
  now,         \* Date.now(), used in the key of a created custom rule
  pc,          \* per invocation: the await the run is suspended at
  det,         \* per invocation: the result of detectLanguage
  probes,      \* per invocation: the paths detectLanguage asked the file system about
  choices,     \* per invocation: the items of the selection list on screen
  rule,        \* per invocation: the selected pairing rule
  fileName,    \* per invocation: the name entered
  found,       \* per invocation: what checkFileExistence returned
  seen,        \* per invocation: the target paths that existed when checked
  wr,          \* per invocation: state of the two writeFile calls
  msg,         \* per invocation: error messages shown, in order
  snap,        \* per invocation: the persisted rules when the run started
  pend,        \* per invocation: the rule list handed to writeRules
  shown,       \* per invocation: the prompts shown so far, in order
  clobbered,   \* paths at which a write replaced an existing file
  wiz          \* the configuration wizard: its prompt, selected rule and scope

vars == <<version, editor, folders, fs, unstatable, cache, rules, now, pc, det,
          probes, choices, rule, fileName, found, seen, wr, msg, snap, pend,
          shown, clobbered, wiz>>

(***************************************************************************)
(* Bounds of the model.                                                    *)
(***************************************************************************)
NumInv == 2      \* invocation slots (runs that may be in flight together)
MaxNow == 1      \* the clock runs 0..MaxNow
MaxWizard == 2   \* runs of the configuration wizard

Invs == 1..NumInv

Versions == {"v1", "v2", "v3", "v4"}
Layered  == {"v3", "v4"}       \* versions with PairCreatorService.fileExists

Absent    == <<"absent">>      \* no file at the path
OldFile   == <<"old">>         \* content of a file that was there before
Undefined == "undefined"
NoPath    == <<"", "">>        \* null where a path is expected

\* "Main": the active file; the others: names the file name box lets through
Names == {"Main", "Foo", " Foo", "my_name", "_x"}
Exts  == {".h", ".c", ".cpp", ".cc", ".cxx", ".hh", ".hpp", ".hxx"}
Paths == Names \X Exts

\* path.join(dir, `${base}${ext}`) within the one directory
join(base, ext) == <<base, ext>>

Scopes == {"workspace", "user"}

(***************************************************************************)
(* Pairing rules.  isClass / isStruct are optional in the source: they are *)
(* "true", "false" or Undefined here, and === is equality of these.        *)
(***************************************************************************)
Rule(k, l, h, s, c, t) ==
  [key |-> k, language |-> l, headerExt |-> h, sourceExt |-> s,
   isClass |-> c, isStruct |-> t]

Truthy(x) == x = "true"

TEMPLATE_RULES ==
  << Rule("cpp_empty",  "cpp", ".h", ".cpp", Undefined, Undefined),
     Rule("cpp_class",  "cpp", ".h", ".cpp", "true",    Undefined),
     Rule("cpp_struct", "cpp", ".h", ".cpp", Undefined, "true"),
     Rule("c_empty",    "c",   ".h", ".c",   Undefined, Undefined),
     Rule("c_struct",   "c",   ".h", ".c",   Undefined, "true") >>

\* The rules the configuration wizard's quick setup writes (EXTENSION_OPTIONS,
\* key custom_<language>_<index>).
EXTENSION_OPTIONS ==
  << Rule("custom_cpp_0", "cpp", ".h",   ".cpp", Undefined, Undefined),
     Rule("custom_cpp_1", "cpp", ".hh",  ".cc",  Undefined, Undefined),
     Rule("custom_cpp_2", "cpp", ".hpp", ".cpp", Undefined, Undefined),
     Rule("custom_cpp_3", "cpp", ".hxx", ".cxx", Undefined, Undefined),
     Rule("custom_c_4",   "c",   ".h",   ".c",   Undefined, Undefined) >>

UseDefaultItem == [key |-> "use_default", isSpecial |-> TRUE]

NoRule == [key |-> ""]

Range(s) == {s[k] : k \in 1..Len(s)}

\* a value of the setting in one scope: a rule list, or not set
Unset == [defined |-> FALSE, value |-> <<>>]
Set(list) == [defined |-> TRUE, value |-> list]

\* PairingRuleService.getRules(scope): the scope's own value, or undefined
getRules(scope) == rules[scope]

\* v ?? [] (and v || [])
OrEmpty(v) == IF v.defined THEN v.value ELSE <<>>

\* [...(getRules('workspace') ?? []), ...(getRules('user') ?? [])]
getAllPairingRules == OrEmpty(getRules("workspace")) \o OrEmpty(getRules("user"))

(***************************************************************************)
(* Language detection.                                                     *)
(***************************************************************************)
DEFINITIVE_EXTENSIONS ==
  [c |-> {".c"}, cpp |-> {".cpp", ".cc", ".cxx", ".hh", ".hpp", ".hxx"}]

cppExtensions == {".cpp", ".cc", ".cxx"}

Result(l, u) == [language |-> l, uncertain |-> u]

NoEditor == [kind |-> "none", name |-> "", ext |-> "", languageId |-> Undefined]

Saved(ed) == ed.kind = "saved"

\* a stat whose failure is not told from success
Probe_failureCounts(p) == p \in Paths /\ fs[p] # Absent

\* vscode.workspace.fs.stat(p) fulfils
Probe(p) == p \in Paths /\ fs[p] # Absent /\ p \notin unstatable

\* PairCreatorService.fileExists: the cached answer if there is one
fileExists(p) == IF cache[p] # "none" THEN cache[p] = "yes" ELSE Probe(p)

\* the existence check a version uses for companion files
exists(v, p) == IF v \in Layered THEN fileExists(p) ELSE Probe(p)

detectLanguageForHeaderFile(v, ed) ==
  IF exists(v, join(ed.name, ".c")) THEN Result("c", FALSE)
  ELSE IF \E e \in cppExtensions : exists(v, join(ed.name, e))
       THEN Result("cpp", FALSE)
       ELSE Result("cpp", TRUE)

detectLanguage_v4(v, ed) ==
  IF ed.languageId = Undefined \/ ~Saved(ed) THEN Result("cpp", TRUE)
  ELSE IF ed.ext \in DEFINITIVE_EXTENSIONS.c THEN Result("c", FALSE)
  ELSE IF ed.ext \in DEFINITIVE_EXTENSIONS.cpp THEN Result("cpp", FALSE)
  ELSE IF ed.languageId = "c" THEN Result("c", FALSE)
  ELSE IF ed.languageId \in {"cpp", "cxx"} THEN Result("cpp", FALSE)
  ELSE IF ed.ext = ".h" THEN detectLanguageForHeaderFile(v, ed)
  ELSE Result(IF ed.languageId = "c" THEN "c" ELSE "cpp", TRUE)

\* detection without the early return for a missing file path
detectLanguage_v1_noPathCheck(v, ed) ==
  IF ed.ext \in DEFINITIVE_EXTENSIONS.c THEN Result("c", FALSE)
  ELSE IF ed.ext \in DEFINITIVE_EXTENSIONS.cpp THEN Result("cpp", FALSE)
  ELSE IF ed.ext = ".h" THEN detectLanguageForHeaderFile(v, ed)
  ELSE Result(IF ed.languageId = "c" THEN "c" ELSE "cpp", TRUE)

detectLanguage_v1(v, ed) ==
  IF ~Saved(ed) THEN Result("cpp", TRUE)
  ELSE IF ed.ext \in DEFINITIVE_EXTENSIONS.c THEN Result("c", FALSE)
  ELSE IF ed.ext \in DEFINITIVE_EXTENSIONS.cpp THEN Result("cpp", FALSE)
  ELSE IF ed.ext = ".h" THEN detectLanguageForHeaderFile(v, ed)
  ELSE Result(IF ed.languageId = "c" THEN "c" ELSE "cpp", TRUE)

\* detection that trusts the language id before it looks at the extension
detectLanguage_idFirst(v, ed) ==
  IF Saved(ed) /\ ed.languageId = "c" THEN Result("c", FALSE)
  ELSE detectLanguage_v1(v, ed)

detectLanguage(v, ed) ==
  IF v = "v4" THEN detectLanguage_v4(v, ed) ELSE detectLanguage_v1(v, ed)

\* whether detection gets as far as the companion-file probe
ReachesProbe(v, ed) ==
  /\ Saved(ed)
  /\ ed.ext = ".h"
  /\ v = "v4" => ed.languageId \notin {"c", "cpp", "cxx"}

\* the paths detection asks about: all four at once (v1, v2), or .c first and
\* the C++ ones only when .c is not there (v3, v4)
Asked(v, ed) ==
  IF ~ReachesProbe(v, ed) THEN {}
  ELSE IF v \in Layered /\ exists(v, join(ed.name, ".c")) THEN {join(ed.name, ".c")}
  ELSE {join(ed.name, e) : e \in {".c"} \cup cppExtensions}

\* fileStatCache after the existence of the paths in ps was asked for
Cached(v, ps) ==
  IF v \notin Layered THEN cache
  ELSE [p \in Paths |->
          IF p \in ps /\ cache[p] = "none"
          THEN (IF Probe(p) THEN "yes" ELSE "no")
          ELSE cache[p]]

(***************************************************************************)
(* Selection lists.                                                        *)
(***************************************************************************)
RECURSIVE filter(_, _)
\* Array.filter: keeps the elements of s whose test result in keep is TRUE
filter(s, keep) ==
  IF s = <<>> THEN <<>>
  ELSE (IF Head(keep) THEN <<Head(s)>> ELSE <<>>) \o filter(Tail(s), Tail(keep))

\* rules.filter(rule => rule.language === l)
ofLanguage(s, l) == filter(s, [k \in 1..Len(s) |-> s[k].language = l])
\* TEMPLATE_RULES.filter(template => template.language !== l)
notOfLanguage(s, l) == filter(s, [k \in 1..Len(s) |-> s[k].language # l])

NoExtensions == [headerExt |-> "", sourceExt |-> ""]   \* null

\* allRules.find(r => r.language === 'cpp'), as {headerExt, sourceExt} or null
getCustomCppExtensions ==
  LET cppRules == ofLanguage(getAllPairingRules, "cpp")
  IN IF cppRules = <<>> THEN NoExtensions
     ELSE [headerExt |-> cppRules[1].headerExt, sourceExt |-> cppRules[1].sourceExt]

\* adaptRuleForDisplay / adaptRuleForCurrentExtensions (v2..v4); v1 has none
adaptRuleForDisplay(v, r) ==
  IF v = "v1" \/ r.language # "cpp" \/ getCustomCppExtensions = NoExtensions THEN r
  ELSE [r EXCEPT !.headerExt = getCustomCppExtensions.headerExt,
                 !.sourceExt = getCustomCppExtensions.sourceExt]

\* an order that follows the language alone
desiredOrder_languageOnly(language, uncertain) ==
  IF language = "c"
  THEN <<"c_empty", "c_struct", "cpp_empty", "cpp_class", "cpp_struct">>
  ELSE <<"cpp_empty", "cpp_class", "cpp_struct", "c_empty", "c_struct">>

desiredOrder(language, uncertain) ==
  IF uncertain THEN <<"cpp_empty", "c_empty", "cpp_class", "cpp_struct", "c_struct">>
  ELSE IF language = "c"
       THEN <<"c_empty", "c_struct", "cpp_empty", "cpp_class", "cpp_struct">>
       ELSE <<"cpp_empty", "cpp_class", "cpp_struct", "c_empty", "c_struct">>

\* Array.indexOf, 0-based, -1 when missing
indexOf(s, x) ==
  IF \E k \in 1..Len(s) : s[k] = x
  THEN (CHOOSE k \in 1..Len(s) : s[k] = x /\ \A j \in 1..(k-1) : s[j] # x) - 1
  ELSE -1

\* the place the stable sort gives element k of s: after every element
\* whose index in order is smaller, and after the earlier ones with the same
Place(s, k, order) ==
  1 + Cardinality({j \in 1..Len(s) :
        \/ indexOf(order, s[j].key) < indexOf(order, s[k].key)
        \/ indexOf(order, s[j].key) = indexOf(order, s[k].key) /\ j < k})

\* [...s].sort((a, b) => order.indexOf(a.key) - order.indexOf(b.key)), stable
SortByOrder(s, order) ==
  [n \in 1..Len(s) |-> s[CHOOSE k \in 1..Len(s) : Place(s, k, order) = n]]

prepareTemplateChoices(v, language, uncertain) ==
  LET sorted == SortByOrder(TEMPLATE_RULES, desiredOrder(language, uncertain))
  IN [k \in 1..Len(sorted) |-> adaptRuleForDisplay(v, sorted[k])]

\* the custom rule provides what the template does (class, struct or plain)
SameKind(customRule, template) ==
  /\ customRule.isClass = template.isClass
  /\ customRule.isStruct = template.isStruct
  /\ \/ Truthy(customRule.isClass)
     \/ Truthy(customRule.isStruct)
     \/ /\ ~Truthy(customRule.isClass) /\ ~Truthy(customRule.isStruct)
        /\ ~Truthy(template.isClass)   /\ ~Truthy(template.isStruct)

ExactDuplicate(customRule, template) ==
  /\ customRule.headerExt = template.headerExt
  /\ customRule.sourceExt = template.sourceExt
  /\ customRule.isClass = template.isClass
  /\ customRule.isStruct = template.isStruct

CppNotCovered(template, languageRules) ==
  /\ template.language = "cpp"
  /\ ~\E k \in 1..Len(languageRules) : SameKind(languageRules[k], template)

NotDuplicated(template, language, languageRules) ==
  /\ template.language = language
  /\ ~\E k \in 1..Len(languageRules) : ExactDuplicate(languageRules[k], template)

\* the list selectFromCustomRules shows; given is the rules it is called with
prepareCustomRulesChoices(v, given, language) ==
  LET languageRules == ofLanguage(given, language)
      kept == IF languageRules # <<>> /\ language = "cpp"
              THEN filter(TEMPLATE_RULES,
                          [k \in 1..Len(TEMPLATE_RULES) |->
                             CppNotCovered(TEMPLATE_RULES[k], languageRules)])
              ELSE filter(TEMPLATE_RULES,
                          [k \in 1..Len(TEMPLATE_RULES) |->
                             NotDuplicated(TEMPLATE_RULES[k], language, languageRules)])
      adaptedDefaultTemplates ==
        IF languageRules # <<>> /\ language = "cpp"
        THEN [k \in 1..Len(kept) |->
                [kept[k] EXCEPT !.key = @ \o "_adapted",
                                !.headerExt = languageRules[1].headerExt,
                                !.sourceExt = languageRules[1].sourceExt]]
        ELSE [k \in 1..Len(kept) |-> adaptRuleForDisplay(v, kept[k])]
      others == notOfLanguage(TEMPLATE_RULES, language)
      otherLanguageTemplates ==
        [k \in 1..Len(others) |-> adaptRuleForDisplay(v, others[k])]
  IN given \o adaptedDefaultTemplates \o otherLanguageTemplates \o <<UseDefaultItem>>

IsUseDefault(item) ==
  "isSpecial" \in DOMAIN item /\ item.isSpecial /\ item.key = "use_default"

\* a resolver that offers to create a rule also when detection is uncertain
checkAndOfferCustomRules_alwaysOffer(v, language, uncertain) ==
  IF v # "v1" /\ language = "c" THEN "templates"
  ELSE IF ofLanguage(getAllPairingRules, language) # <<>> THEN "pickCustom"
  ELSE "offer"

\* a resolver that never offers to create a rule
checkAndOfferCustomRules_noOffer(v, language, uncertain) ==
  IF v # "v1" /\ language = "c" THEN "templates"
  ELSE IF ofLanguage(getAllPairingRules, language) # <<>> THEN "pickCustom"
  ELSE "templates"

\* where checkAndOfferCustomRules goes first: "templates" when it returns
\* undefined at once, else the prompt it shows
checkAndOfferCustomRules(v, language, uncertain) ==
  IF v # "v1" /\ language = "c" THEN "templates"
  ELSE IF ofLanguage(getAllPairingRules, language) # <<>> THEN "pickCustom"
  ELSE IF ~uncertain THEN "offer"
  ELSE "templates"

\* the rules checkAndOfferCustomRules hands to selectFromCustomRules
GivenRules(v, language) ==
  IF v = "v4" THEN getAllPairingRules
  ELSE ofLanguage(getAllPairingRules, language)

(***************************************************************************)
(* Texts.  A text is a string; chars gives the characters of the texts the *)
(* model types or generates, and the string functions work on characters.  *)
(***************************************************************************)
lowerCase ==
  << "a", "b", "c", "d", "e", "f", "g", "h", "i", "j", "k", "l", "m",
     "n", "o", "p", "q", "r", "s", "t", "u", "v", "w", "x", "y", "z" >>
upperCase ==
  << "A", "B", "C", "D", "E", "F", "G", "H", "I", "J", "K", "L", "M",
     "N", "O", "P", "Q", "R", "S", "T", "U", "V", "W", "X", "Y", "Z" >>
digits == {"0", "1", "2", "3", "4", "5", "6", "7", "8", "9"}
whiteSpace == {" ", "\t", "\n", "\r"}

chars(text) ==
  CASE text = ""        -> <<>>
    [] text = "Foo"     -> <<"F", "o", "o">>
    [] text = " Foo"    -> <<" ", "F", "o", "o">>
    [] text = "Main"    -> <<"M", "a", "i", "n">>
    [] text = "1abc"    -> <<"1", "a", "b", "c">>
    [] text = "my-name" -> <<"m", "y", "-", "n", "a", "m", "e">>
    [] text = "my_name" -> <<"m", "y", "_", "n", "a", "m", "e">>
    [] text = "_x"      -> <<"_", "x">>

RECURSIVE concat(_)
\* the string made of the characters (or strings) of cs, in order
concat(cs) == IF cs = <<>> THEN "" ELSE Head(cs) \o concat(Tail(cs))

RECURSIVE trimStart(_)
trimStart(cs) ==
  IF cs # <<>> /\ Head(cs) \in whiteSpace THEN trimStart(Tail(cs)) ELSE cs

RECURSIVE trimEnd(_)
trimEnd(cs) ==
  IF cs # <<>> /\ cs[Len(cs)] \in whiteSpace
  THEN trimEnd(SubSeq(cs, 1, Len(cs) - 1)) ELSE cs

\* String.prototype.trim, on characters
trim(cs) == trimEnd(trimStart(cs))

\* String.prototype.toUpperCase of one character
upper(c) ==
  IF \E k \in 1..Len(lowerCase) : lowerCase[k] = c
  THEN upperCase[CHOOSE k \in 1..Len(lowerCase) : lowerCase[k] = c]
  ELSE c

toUpperCase(text) == concat([k \in 1..Len(chars(text)) |-> upper(chars(text)[k])])

\* VALIDATION_PATTERNS.IDENTIFIER.test: /^[a-zA-Z_][a-zA-Z0-9_]*$/
IDENTIFIER(cs) ==
  LET first == Range(lowerCase) \cup Range(upperCase) \cup {"_"}
  IN /\ cs # <<>>
     /\ cs[1] \in first
     /\ \A k \in 2..Len(cs) : cs[k] \in first \cup digits

\* validateInput of promptForFileName: null (TRUE) when the box accepts text
validateInput(text) == IDENTIFIER(trim(chars(text)))

(***************************************************************************)
(* File content and the file checks of the create flow.                    *)
(***************************************************************************)
templateKey(r) ==
  IF Truthy(r.isClass) THEN "CPP_CLASS"
  ELSE IF Truthy(r.isStruct)
       THEN (IF r.language = "cpp" THEN "CPP_STRUCT" ELSE "C_STRUCT")
       ELSE IF r.language = "c" THEN "C_EMPTY" ELSE "CPP_EMPTY"

\* FILE_TEMPLATES: a template is its lines, a line the pieces of its text;
\* a piece {{name}} is a placeholder.  The final empty line of a template
\* stands for its closing newline.
FILE_TEMPLATES ==
  [CPP_CLASS |->
     [header |-> << <<"#ifndef ", "{{headerGuard}}">>,
                    <<"#define ", "{{headerGuard}}">>,
                    <<>>,
                    <<"class ", "{{fileName}}", " {">>,
                    <<"public:">>,
                    <<"  ", "{{fileName}}", "()", ";">>,
                    <<"  ~", "{{fileName}}", "()", ";">>,
                    <<>>,
                    <<"private:">>,
                    <<"  // Add private members here">>,
                    <<"};">>,
                    <<>>,
                    <<"#endif  // ", "{{headerGuard}}">>,
                    <<>> >>,
      source |-> << <<"{{includeLine}}">>,
                    <<>>,
                    <<"{{fileName}}", "::", "{{fileName}}", "()", " {">>,
                    <<"  // Constructor implementation">>,
                    <<"}">>,
                    <<>>,
                    <<"{{fileName}}", "::~", "{{fileName}}", "()", " {">>,
                    <<"  // Destructor implementation">>,
                    <<"}">>,
                    <<>> >>],
   CPP_STRUCT |->
     [header |-> << <<"#ifndef ", "{{headerGuard}}">>,
                    <<"#define ", "{{headerGuard}}">>,
                    <<>>,
                    <<"struct ", "{{fileName}}", " {">>,
                    <<"  // Struct members">>,
                    <<"};">>,
                    <<>>,
                    <<"#endif  // ", "{{headerGuard}}">>,
                    <<>> >>,
      source |-> << <<"{{includeLine}}">> >>],
   C_STRUCT |->
     [header |-> << <<"#ifndef ", "{{headerGuard}}">>,
                    <<"#define ", "{{headerGuard}}">>,
                    <<>>,
                    <<"typedef struct {">>,
                    <<"  // Struct members">>,
                    <<"} ", "{{fileName}}", ";">>,
                    <<>>,
                    <<"#endif  // ", "{{headerGuard}}">>,
                    <<>> >>,
      source |-> << <<"{{includeLine}}">> >>],
   C_EMPTY |->
     [header |-> << <<"#ifndef ", "{{headerGuard}}">>,
                    <<"#define ", "{{headerGuard}}">>,
                    <<>>,
                    <<"// Declarations for ", "{{fileName}}", ".c">>,
                    <<>>,
                    <<"#endif  // ", "{{headerGuard}}">>,
                    <<>> >>,
      source |-> << <<"{{includeLine}}">>,
                    <<>>,
                    <<"// Implementations for ", "{{fileName}}", ".c">>,
                    <<>> >>],
   CPP_EMPTY |->
     [header |-> << <<"#ifndef ", "{{headerGuard}}">>,
                    <<"#define ", "{{headerGuard}}">>,
                    <<>>,
                    <<"// Declarations for ", "{{fileName}}", ".cpp">>,
                    <<>>,
                    <<"#endif  // ", "{{headerGuard}}">>,
                    <<>> >>,
      source |-> << <<"{{includeLine}}">> >>]]

\* a replace without the g flag: only the first placeholder is filled in
applyTemplate_firstOnly(template, context) ==
  LET isFirst(n, k) ==
        /\ template[n][k] \in DOMAIN context
        /\ \A m \in 1..n : \A j \in 1..Len(template[m]) :
             (m < n \/ j < k) => template[m][j] \notin DOMAIN context
  IN [n \in 1..Len(template) |->
        [k \in 1..Len(template[n]) |->
           IF isFirst(n, k) THEN context[template[n][k]] ELSE template[n][k]]]

\* template.replace(/\{\{(\w+)\}\}/g, (_, key) => context[key] ?? '')
applyTemplate(template, context) ==
  [n \in 1..Len(template) |->
     [k \in 1..Len(template[n]) |->
        IF template[n][k] \in DOMAIN context
        THEN context[template[n][k]]
        ELSE template[n][k]]]

\* getLineEnding: files.eol when it is one of the two line endings, else the
\* platform's
EOLs == {"\n", "\r\n"}
FlowEOLs == {"\n"}

\* the text of the two files: the lines of the template with the name, the
\* header guard and the include line filled in, joined by eol
generateFileContent(name, eol, r) ==
  LET templates == FILE_TEMPLATES[templateKey(r)]
      context ==
        [p \in {"{{fileName}}", "{{headerGuard}}", "{{includeLine}}"} |->
           CASE p = "{{fileName}}" -> name
             [] p = "{{headerGuard}}" -> toUpperCase(name) \o "_H_"
             [] p = "{{includeLine}}" ->
                  "#include \"" \o name \o r.headerExt \o "\""]
  IN [header |-> <<eol, applyTemplate(templates.header, context)>>,
      source |-> <<eol, applyTemplate(templates.source, context)>>]

headerPath(i) == join(fileName[i], rule[i].headerExt)
sourcePath(i) == join(fileName[i], rule[i].sourceExt)
pathOf(i, part) == IF part = "header" THEN headerPath(i) ELSE sourcePath(i)

\* a check that forgets the source path
checkFileExistence_headerOnly(hp, sp) ==
  IF Probe(hp) THEN hp ELSE NoPath

\* the first of the two paths whose stat fulfils, or null
checkFileExistence(hp, sp) ==
  IF Probe(hp) THEN hp ELSE IF Probe(sp) THEN sp ELSE NoPath

\* readDirectory finds no file with a definitive C++ extension
checkForCppFilesInDirectory ==
  ~\E p \in Paths : fs[p] # Absent /\ p[2] \in DEFINITIVE_EXTENSIONS.cpp

CorrespondingPaths(ed, language) ==
  {join(ed.name, e) : e \in (IF language = "c" THEN {".c"} ELSE cppExtensions)}

\* no source file of the detected language sits next to the active file
checkForCorrespondingSourceFiles(ed, language) ==
  ~\E p \in CorrespondingPaths(ed, language) : fileExists(p)

shouldShowLanguageMismatchWarning(ed, language, result) ==
  IF ~Saved(ed) THEN TRUE
  ELSE IF language = "c" /\ result.language = "cpp" THEN checkForCppFilesInDirectory
  ELSE checkForCorrespondingSourceFiles(ed, language)

\* whether promptForPairingRule asks for confirmation of the chosen template
NeedsWarning(v, ed, d, result) ==
  IF v = "v1" THEN FALSE
  ELSE IF v = "v2" THEN ~d.uncertain /\ d.language # result.language
  ELSE IF v = "v3" THEN /\ ~d.uncertain /\ d.language # result.language
                        /\ shouldShowLanguageMismatchWarning(ed, d.language, result)
  ELSE /\ d.language = "c" /\ result.language = "cpp"
       /\ shouldShowLanguageMismatchWarning(ed, d.language, result)

\* the paths the mismatch check asks fileExists about
WarningAsked(v, ed, d, result) ==
  IF /\ v = "v3" /\ ~d.uncertain /\ d.language # result.language /\ Saved(ed)
     /\ ~(d.language = "c" /\ result.language = "cpp")
  THEN CorrespondingPaths(ed, d.language)
  ELSE {}

Error(kind, path) == [kind |-> kind, path |-> path]

\* the extension pairs createCustomRules offers; the last one is "Custom"
commonExtensions(language) ==
  IF language = "cpp"
  THEN << <<".h", ".cpp">>, <<".hh", ".cc">>, <<".hpp", ".cpp">>,
          <<".hxx", ".cxx">>, <<"", "">> >>
  ELSE << <<".h", ".c">>, <<"", "">> >>

\* Date.now() when the clock is first read; now counts on from there
Epoch == 1000

\* the rule createCustomRules builds at time t
customRule(language, h, s, t) ==
  Rule("custom_" \o language \o "_" \o ToString(Epoch + t), language, h, s,
       Undefined, Undefined)

ExtInputs == {".hh", ".cc"}    \* extensions typed into the custom input boxes
\* texts typed into the file name box
NameInputs == {"Foo", " Foo", "1abc", "my-name", "my_name", "_x"}
FlowInputs == {"Foo"}

Prompts ==
  {"offer", "pickExt", "inputHeaderExt", "inputSourceExt", "pickScope",
   "pickCustom", "pickTemplate", "confirm", "inputName"}


(***************************************************************************)
(* The create flow, one action per await at which a run can be suspended.  *)
(***************************************************************************)
\* what no step of the create flow changes
Const == <<version, editor, folders, unstatable, wiz>>

Goto(i, to) == pc' = [pc EXCEPT ![i] = to]

\* opens prompt to
Show(i, to) ==
  /\ Goto(i, to)
  /\ shown' = [shown EXCEPT ![i] = Append(@, to)]

\* a failure after which the run starts over once
Fail_retryOnce(i, kind, path) ==
  /\ Goto(i, IF msg[i] = <<>> THEN "detect" ELSE "failed")
  /\ msg' = [msg EXCEPT ![i] = Append(@, Error(kind, path))]

Fail(i, kind, path) ==
  /\ Goto(i, "failed")
  /\ msg' = [msg EXCEPT ![i] = Append(@, Error(kind, path))]

\* a start that goes on without a target directory
Start_noFolderCheck(i) ==
  /\ pc[i] = "idle"
  /\ snap' = [snap EXCEPT ![i] = rules]
  /\ IF folders > 1 /\ ~Saved(editor)
     THEN Show(i, "pickFolder") /\ UNCHANGED msg
     ELSE Goto(i, "detect") /\ UNCHANGED <<msg, shown>>
  /\ UNCHANGED <<Const, fs, cache, rules, now, det, probes, choices, rule,
                 fileName, found, seen, wr, pend, clobbered>>

\* create(): getTargetDirectory, up to its workspace folder pick
Start(i) ==
  /\ pc[i] = "idle"
  /\ snap' = [snap EXCEPT ![i] = rules]
  /\ IF Saved(editor) \/ folders = 1
     THEN Goto(i, "detect") /\ UNCHANGED <<msg, shown>>
     ELSE IF folders > 1
          THEN Show(i, "pickFolder") /\ UNCHANGED msg
          ELSE Fail(i, "NoTargetDirectory", NoPath) /\ UNCHANGED shown
  /\ UNCHANGED <<Const, fs, cache, rules, now, det, probes, choices, rule,
                 fileName, found, seen, wr, pend, clobbered>>

\* showWorkspaceFolderPick answered: a folder, or dismissed
PickFolder(i, picked) ==
  /\ pc[i] = "pickFolder"
  /\ IF picked
     THEN Goto(i, "detect") /\ UNCHANGED msg
     ELSE Fail(i, "NoTargetDirectory", NoPath)
  /\ UNCHANGED <<Const, fs, cache, rules, now, det, probes, choices, rule,
                 fileName, found, seen, wr, pend, clobbered, snap, shown>>

\* detectLanguage, then promptForPairingRule up to its first prompt
Detect(i) ==
  /\ pc[i] = "detect"
  /\ LET d == detectLanguage(version, editor)
         first == checkAndOfferCustomRules(version, d.language, d.uncertain)
     IN /\ det' = [det EXCEPT ![i] = d]
        /\ probes' = [probes EXCEPT ![i] = Asked(version, editor)]
        /\ cache' = Cached(version, Asked(version, editor))
        /\ Show(i, IF first = "templates" THEN "pickTemplate" ELSE first)
        /\ choices' = [choices EXCEPT ![i] =
             IF first = "templates"
             THEN prepareTemplateChoices(version, d.language, d.uncertain)
             ELSE IF first = "pickCustom"
                  THEN prepareCustomRulesChoices(version,
                         GivenRules(version, d.language), d.language)
                  ELSE <<>>]
  /\ UNCHANGED <<Const, fs, rules, now, rule, fileName, found, seen, wr, msg,
                 snap, pend, clobbered>>

\* offerToCreateCustomRules answered with one of its two buttons
Offer(i, create) ==
  /\ pc[i] = "offer"
  /\ IF create
     THEN Show(i, "pickExt") /\ UNCHANGED choices
     ELSE /\ Show(i, "pickTemplate")
          /\ choices' = [choices EXCEPT ![i] =
               prepareTemplateChoices(version, det[i].language, det[i].uncertain)]
  /\ UNCHANGED <<Const, fs, cache, rules, now, det, probes, rule, fileName,
                 found, seen, wr, msg, snap, pend, clobbered>>

\* createCustomRules: an extension pair picked; Date.now() read for the key
PickExt(i, k, t) ==
  /\ pc[i] = "pickExt"
  /\ k \in 1..Len(commonExtensions(det[i].language))
  /\ LET sel == commonExtensions(det[i].language)[k]
     IN IF sel[1] = "" \/ sel[2] = ""
        THEN Show(i, "inputHeaderExt") /\ UNCHANGED <<rule, now>>
        ELSE /\ t \in now..MaxNow
             /\ now' = t
             /\ rule' = [rule EXCEPT ![i] =
                           customRule(det[i].language, sel[1], sel[2], t)]
             /\ Show(i, "pickScope")
  /\ UNCHANGED <<Const, fs, cache, rules, det, probes, choices, fileName,
                 found, seen, wr, msg, snap, pend, clobbered>>

\* createCustomRules: the header extension typed in
InputHeaderExt(i, e) ==
  /\ pc[i] = "inputHeaderExt"
  /\ rule' = [rule EXCEPT ![i] = [key |-> "", headerExt |-> e]]
  /\ Show(i, "inputSourceExt")
  /\ UNCHANGED <<Const, fs, cache, rules, now, det, probes, choices, fileName,
                 found, seen, wr, msg, snap, pend, clobbered>>

\* createCustomRules: the source extension typed in; Date.now() read
InputSourceExt(i, e, t) ==
  /\ pc[i] = "inputSourceExt"
  /\ t \in now..MaxNow
  /\ now' = t
  /\ rule' = [rule EXCEPT ![i] =
                customRule(det[i].language, rule[i].headerExt, e, t)]
  /\ Show(i, "pickScope")
  /\ UNCHANGED <<Const, fs, cache, rules, det, probes, choices, fileName,
                 found, seen, wr, msg, snap, pend, clobbered>>

\* createCustomRules: save location picked; getRules(scope) read and
\* writeRules([...existingRules, customRule], scope) called
PickScope(i, scope) ==
  /\ pc[i] = "pickScope"
  /\ pend' = [pend EXCEPT ![i] =
                [scope |-> scope,
                 list |-> Append(OrEmpty(getRules(scope)), rule[i])]]
  /\ Goto(i, "savingRule")
  /\ UNCHANGED <<Const, fs, cache, rules, now, det, probes, choices, rule,
                 fileName, found, seen, wr, msg, snap, shown, clobbered>>

\* validateRule: key, language, headerExt and sourceExt are all there
validateRule(r) ==
  /\ {"key", "language", "headerExt", "sourceExt"} \subseteq DOMAIN r
  /\ r.key # "" /\ r.language # "" /\ r.headerExt # "" /\ r.sourceExt # ""

\* a save whose failure is shown and then taken for success
SaveRuleDone_goesOn(i, ok) ==
  /\ pc[i] = "savingRule"
  /\ IF ok
     THEN /\ rules' = [rules EXCEPT ![pend[i].scope] = Set(pend[i].list)]
          /\ UNCHANGED msg
     ELSE /\ msg' = [msg EXCEPT ![i] = Append(@, Error("SaveRuleFailed", NoPath))]
          /\ UNCHANGED rules
  /\ Show(i, "inputName")
  /\ UNCHANGED <<Const, fs, cache, now, det, probes, choices, rule, fileName,
                 found, seen, wr, snap, pend, clobbered>>

\* writeRules settles: it rejects when a rule of the list is not valid or
\* when config.update rejects
SaveRuleDone(i, ok) ==
  /\ pc[i] = "savingRule"
  /\ IF ok /\ \A k \in 1..Len(pend[i].list) : validateRule(pend[i].list[k])
     THEN /\ rules' = [rules EXCEPT ![pend[i].scope] = Set(pend[i].list)]
          /\ Show(i, "inputName")
          /\ UNCHANGED msg
     ELSE /\ Fail(i, "SaveRuleFailed", NoPath)
          /\ UNCHANGED <<rules, shown>>
  /\ UNCHANGED <<Const, fs, cache, now, det, probes, choices, rule, fileName,
                 found, seen, wr, snap, pend, clobbered>>

\* selectFromCustomRules answered with item k of its list
PickCustom(i, k) ==
  /\ pc[i] = "pickCustom"
  /\ k \in 1..Len(choices[i])
  /\ IF IsUseDefault(choices[i][k])
     THEN /\ Show(i, "pickTemplate")
          /\ choices' = [choices EXCEPT ![i] =
               prepareTemplateChoices(version, det[i].language, det[i].uncertain)]
          /\ UNCHANGED rule
     ELSE /\ rule' = [rule EXCEPT ![i] = choices[i][k]]
          /\ Show(i, "inputName")
          /\ UNCHANGED choices
  /\ UNCHANGED <<Const, fs, cache, rules, now, det, probes, fileName, found,
                 seen, wr, msg, snap, pend, clobbered>>

\* the template list answered with item k; the mismatch check follows
PickTemplate(i, k) ==
  /\ pc[i] = "pickTemplate"
  /\ k \in 1..Len(choices[i])
  /\ rule' = [rule EXCEPT ![i] = choices[i][k]]
  /\ cache' = Cached(version, WarningAsked(version, editor, det[i], choices[i][k]))
  /\ Show(i, IF NeedsWarning(version, editor, det[i], choices[i][k])
             THEN "confirm" ELSE "inputName")
  /\ UNCHANGED <<Const, fs, rules, now, det, probes, choices, fileName, found,
                 seen, wr, msg, snap, pend, clobbered>>

\* a continue button that opens the template list again
Confirm_backToList(i) ==
  /\ pc[i] = "confirm"
  /\ Show(i, "pickTemplate")
  /\ UNCHANGED <<Const, fs, cache, rules, now, det, probes, choices, rule,
                 fileName, found, seen, wr, msg, snap, pend, clobbered>>

\* the mismatch warning answered with its continue button
Confirm(i) ==
  /\ pc[i] = "confirm"
  /\ Show(i, "inputName")
  /\ UNCHANGED <<Const, fs, cache, rules, now, det, probes, choices, rule,
                 fileName, found, seen, wr, msg, snap, pend, clobbered>>

\* promptForFileName answered with a text its validateInput lets through;
\* checkFileExistence; then either the error or getLineEnding,
\* generateFileContent and the two writeFile calls of writeFiles
EnterName(i, name, eol) ==
  /\ pc[i] = "inputName"
  /\ validateInput(name)
  /\ fileName' = [fileName EXCEPT ![i] = name]
  /\ LET hp == join(name, rule[i].headerExt)
         sp == join(name, rule[i].sourceExt)
         hit == checkFileExistence(hp, sp)
     IN /\ seen' = [seen EXCEPT ![i] = {p \in {hp, sp} : fs[p] # Absent}]
        /\ found' = [found EXCEPT ![i] = hit]
        /\ IF hit # NoPath
           THEN Fail(i, "FileExists", hit) /\ UNCHANGED wr
           ELSE /\ Goto(i, "writing")
                /\ wr' = [wr EXCEPT ![i] = [header |-> "pending",
                                            source |-> "pending", eol |-> eol]]
                /\ UNCHANGED msg
  /\ UNCHANGED <<Const, fs, cache, rules, now, det, probes, choices, rule,
                 snap, pend, shown, clobbered>>

Other(part) == IF part = "header" THEN "source" ELSE "header"

\* one of the two writeFile calls settles; Promise.all rejects with the first
\* failure and fulfils with the second success
WriteDone(i, part, ok) ==
  /\ wr[i][part] = "pending"
  /\ wr' = [wr EXCEPT ![i][part] = IF ok THEN "ok" ELSE "failed"]
  /\ IF ok
     THEN /\ fs' = [fs EXCEPT ![pathOf(i, part)] =
                      generateFileContent(fileName[i], wr[i].eol, rule[i])[part]]
          /\ clobbered' = IF fs[pathOf(i, part)] # Absent
                          THEN clobbered \cup {pathOf(i, part)} ELSE clobbered
     ELSE UNCHANGED <<fs, clobbered>>
  /\ IF pc[i] # "writing" THEN UNCHANGED <<pc, msg>>
     ELSE IF ~ok THEN Fail(i, "WriteFailed", NoPath)
     ELSE IF wr[i][Other(part)] = "ok" THEN Goto(i, "created") /\ UNCHANGED msg
     ELSE UNCHANGED <<pc, msg>>
  /\ UNCHANGED <<Const, cache, rules, now, det, probes, choices, rule,
                 fileName, found, seen, snap, pend, shown>>

\* a prompt of the rule or name dialogs dismissed (Escape)
Dismiss(i) ==
  /\ pc[i] \in Prompts
  /\ Goto(i, "cancelled")
  /\ UNCHANGED <<Const, fs, cache, rules, now, det, probes, choices, rule,
                 fileName, found, seen, wr, msg, snap, pend, shown, clobbered>>

\* the 5 s timer of fileExists deletes the cache entry of p
Expire(p) ==
  /\ cache[p] # "none"
  /\ cache' = [cache EXCEPT ![p] = "none"]
  /\ UNCHANGED <<Const, fs, rules, now, pc, det, probes, choices, rule,
                 fileName, found, seen, wr, msg, snap, pend, shown, clobbered>>

\* somebody else creates or deletes a file next to the active one
Touch(p) ==
  /\ Saved(editor)
  /\ p \in {join(editor.name, e) : e \in {".c", ".cpp", ".cxx"}}
  /\ p # join(editor.name, editor.ext)
  /\ fs' = [fs EXCEPT ![p] = IF @ = Absent THEN OldFile ELSE Absent]
  /\ UNCHANGED <<Const, cache, rules, now, pc, det, probes, choices, rule,
                 fileName, found, seen, wr, msg, snap, pend, shown, clobbered>>

(***************************************************************************)
(* The configuration wizard: quick setup.                                  *)
(***************************************************************************)
\* what no step of the wizard changes
Flow == <<version, editor, folders, unstatable, fs, cache, now, pc, det, probes,
          choices, rule, fileName, found, seen, wr, msg, snap, pend, shown,
          clobbered>>

Wizard(at, r, scope, done, runs) ==
  [pc |-> at, rule |-> r, scope |-> scope, done |-> done, runs |-> runs]

\* showConfigurationWizard: item k of createRuleChoices selected
WizardPickRule(k) ==
  /\ wiz.pc = "closed"
  /\ k \in 1..Len(EXTENSION_OPTIONS)
  /\ wiz.runs < MaxWizard
  /\ wiz' = Wizard("pickScope", EXTENSION_OPTIONS[k], "", wiz.done, wiz.runs + 1)
  /\ UNCHANGED <<Flow, rules>>

\* handleRuleSelection: scope picked, writeRules([rule], scope) called
WizardPickScope(scope) ==
  /\ wiz.pc = "pickScope"
  /\ wiz' = [wiz EXCEPT !.pc = "saving", !.scope = scope]
  /\ UNCHANGED <<Flow, rules>>

\* handleRuleSelection: the scope prompt dismissed
WizardDismiss ==
  /\ wiz.pc = "pickScope"
  /\ wiz' = Wizard("closed", NoRule, "", wiz.done, wiz.runs)
  /\ UNCHANGED <<Flow, rules>>

\* a quick setup that adds the rule to the ones the scope holds
WizardSaved_append(ok) ==
  /\ wiz.pc = "saving"
  /\ wiz' = Wizard("closed", NoRule, "", IF ok THEN "saved" ELSE "failed", wiz.runs)
  /\ rules' = IF ok
              THEN [rules EXCEPT ![wiz.scope] =
                      Set(Append(OrEmpty(getRules(wiz.scope)), wiz.rule))]
              ELSE rules
  /\ UNCHANGED Flow

\* config.update of the wizard's writeRules settles
WizardSaved(ok) ==
  /\ wiz.pc = "saving"
  /\ wiz' = Wizard("closed", NoRule, "", IF ok THEN "saved" ELSE "failed", wiz.runs)
  /\ rules' = IF ok THEN [rules EXCEPT ![wiz.scope] = Set(<<wiz.rule>>)] ELSE rules
  /\ UNCHANGED Flow

Run(i, texts, eols) ==
  \/ Start(i)
  \/ \E picked \in BOOLEAN : PickFolder(i, picked)
  \/ Detect(i)
  \/ \E create \in BOOLEAN : Offer(i, create)
  \/ \E k \in 1..Len(commonExtensions(det[i].language)), t \in 0..MaxNow :
       PickExt(i, k, t)
  \/ \E e \in ExtInputs : InputHeaderExt(i, e)
  \/ \E e \in ExtInputs, t \in 0..MaxNow : InputSourceExt(i, e, t)
  \/ \E scope \in Scopes : PickScope(i, scope)
  \/ \E ok \in BOOLEAN : SaveRuleDone(i, ok)
  \/ \E k \in 1..Len(choices[i]) : PickCustom(i, k)
  \/ \E k \in 1..Len(choices[i]) : PickTemplate(i, k)
  \/ Confirm(i)
  \/ \E name \in texts, eol \in eols : EnterName(i, name, eol)
  \/ \E part \in {"header", "source"}, ok \in BOOLEAN : WriteDone(i, part, ok)
  \/ Dismiss(i)

Next == \E i \in Invs : Run(i, FlowInputs, FlowEOLs)

(***************************************************************************)
(* Initial states: what is on disk, in the editor and in the settings when *)
(* the command is invoked.                                                 *)
(***************************************************************************)
Ed(kind, ext, languageId) ==
  [kind |-> kind, name |-> IF kind = "saved" THEN "Main" ELSE "",
   ext |-> ext, languageId |-> languageId]

LanguageIds == {"c", "cpp", "plaintext"}

\* every extension the active file may have: the ones detection knows, one
\* it does not know, and none
EditorExts == Exts \cup {".txt", ""}

AllEditors ==
  {NoEditor}
    \cup {Ed("untitled", "", l) : l \in LanguageIds}
    \cup {Ed("saved", e, l) : e \in EditorExts, l \in LanguageIds}

FlowEditors ==
  {NoEditor, Ed("saved", ".c", "c"), Ed("saved", ".cpp", "cpp"),
   Ed("saved", ".h", "cpp"), Ed("saved", ".txt", "c")}

\* a rule written by hand into the user settings
classRule == Rule("my_class", "cpp", ".hpp", ".cpp", "true", Undefined)

\* a rule for C with isClass, which the settings schema lets through
cClassRule == Rule("my_c_class", "c", ".h", ".c", "true", Undefined)

FlowSettings ==
  {[workspace |-> w, user |-> u] :
     w \in {Unset, Set(<<EXTENSION_OPTIONS[4]>>), Set(<<EXTENSION_OPTIONS[5]>>)},
     u \in {Unset, Set(<<classRule>>)}}

\* what else is in the directory: nothing, one or both of the files the run
\* is about to create, or a C++ source next to the active file
FlowFiles ==
  {{}, {<<"Foo", ".h">>}, {<<"Foo", ".cpp">>}, {<<"Foo", ".h">>, <<"Foo", ".cpp">>},
   {<<"Main", ".cpp">>}, {<<"Foo", ".h">>, <<"Main", ".cpp">>}}

\* the active file, when saved, is on disk
ActiveFiles(ed) ==
  IF Saved(ed) /\ join(ed.name, ed.ext) \in Paths THEN {join(ed.name, ed.ext)} ELSE {}

Disk(files) == [p \in Paths |-> IF p \in files THEN OldFile ELSE Absent]

NoDet == Result("", TRUE)

NoWrites == [header |-> "none", source |-> "none", eol |-> ""]

NoPend == [scope |-> "", list |-> <<>>]

\* the per-invocation variables before the invocation has started
Fresh(live) ==
  /\ pc = [i \in Invs |-> IF i \in live THEN "idle" ELSE "off"]
  /\ det = [i \in Invs |-> NoDet]
  /\ probes = [i \in Invs |-> {}]
  /\ choices = [i \in Invs |-> <<>>]
  /\ rule = [i \in Invs |-> NoRule]
  /\ fileName = [i \in Invs |-> ""]
  /\ found = [i \in Invs |-> NoPath]
  /\ seen = [i \in Invs |-> {}]
  /\ wr = [i \in Invs |-> NoWrites]
  /\ msg = [i \in Invs |-> <<>>]
  /\ snap = [i \in Invs |-> rules]
  /\ pend = [i \in Invs |-> NoPend]
  /\ shown = [i \in Invs |-> <<>>]
  /\ cache = [p \in Paths |-> "none"]
  /\ clobbered = {}
  /\ now = 0
  /\ wiz = Wizard("closed", NoRule, "", "", 0)

\* one invocation, in any of the editor and settings contexts
Init ==
  /\ version \in Versions
  /\ editor \in FlowEditors
  /\ folders \in (IF Saved(editor) THEN {1} ELSE {0, 1, 2})
  /\ \E extra \in FlowFiles : fs = Disk(ActiveFiles(editor) \cup extra)
  /\ unstatable \in SUBSET {p \in {<<"Foo", ".h">>, <<"Main", ".cpp">>} :
                               fs[p] # Absent /\ (p[1] = "Main" => editor.ext = ".h")}
  /\ rules \in FlowSettings
  /\ Fresh({1})

Spec == Init /\ [][Next]_vars

\* two invocations of the coordinator that may overlap, on an empty directory
\* and empty settings
InitRace ==
  /\ version = "v4"
  /\ editor \in {NoEditor, Ed("saved", ".c", "c"), Ed("saved", ".cpp", "cpp")}
  /\ folders = (IF Saved(editor) THEN 1 ELSE 2)
  /\ fs = Disk(ActiveFiles(editor))
  /\ unstatable = {}
  /\ rules = [workspace |-> Unset, user |-> Unset]
  /\ Fresh(Invs)

SpecRace == InitRace /\ [][Next]_vars

\* the wizard's quick setup, run up to MaxWizard times before, while and
\* after one invocation of the create flow in a C++ file
InitWizard ==
  /\ version \in Versions
  /\ editor = Ed("saved", ".cpp", "cpp")
  /\ folders = 1
  /\ fs = Disk(ActiveFiles(editor))
  /\ unstatable = {}
  /\ rules = [workspace |-> Unset, user |-> Unset]
  /\ Fresh({1})

\* the items picked in the wizard: .h/.cpp, .hh/.cc and .h/.c
QuickPicks == {1, 2, 5}

NextWizard ==
  \/ \E k \in QuickPicks : WizardPickRule(k)
  \/ \E scope \in Scopes : WizardPickScope(scope)
  \/ WizardDismiss
  \/ \E ok \in BOOLEAN : WizardSaved(ok)
  \/ \E i \in Invs :
       \/ Start(i)
       \/ Detect(i)
       \/ \E create \in BOOLEAN : Offer(i, create)
       \/ \E k \in 1..Len(commonExtensions(det[i].language)), t \in 0..MaxNow :
            PickExt(i, k, t)
       \/ \E scope \in Scopes : PickScope(i, scope)
       \/ \E ok \in BOOLEAN : SaveRuleDone(i, ok)
       \/ \E k \in 1..Len(choices[i]) : PickCustom(i, k)
       \/ \E k \in 1..Len(choices[i]) : PickTemplate(i, k)
       \/ Dismiss(i)

SpecWizard == InitWizard /\ [][NextWizard]_vars

\* one invocation whose prompts are all answered or dismissed in the end and
\* whose file system and settings calls all settle
InitFair ==
  /\ version \in Versions
  /\ editor \in {NoEditor, Ed("saved", ".c", "c"), Ed("saved", ".cpp", "cpp")}
  /\ folders \in (IF Saved(editor) THEN {1} ELSE {0, 2})
  /\ \E extra \in {{}, {<<"Foo", ".h">>}} : fs = Disk(ActiveFiles(editor) \cup extra)
  /\ unstatable = {}
  /\ rules \in {[workspace |-> Unset, user |-> u] : u \in {Unset, Set(<<classRule>>)}}
  /\ Fresh({1})

SpecFair == InitFair /\ [][Next]_vars /\ WF_vars(Next)

\* detection alone: every editor context, companion files that come and go,
\* cache entries that expire; the runs stop at their first prompt
InitDetect ==
  /\ version \in Versions
  /\ editor \in AllEditors
  /\ folders = 1
  /\ fs = Disk(ActiveFiles(editor))
  /\ unstatable \in {{}, {<<"Main", ".c">>}}
  /\ rules = [workspace |-> Unset, user |-> Unset]
  /\ Fresh(Invs)

NextDetect ==
  \/ \E i \in Invs : Start(i) \/ Detect(i)
  \/ \E p \in Paths : Expire(p)
  \/ \E p \in Paths : Touch(p)

SpecDetect == InitDetect /\ [][NextDetect]_vars

\* the name and write steps alone: no active editor, so that detection is
\* uncertain and the rule prompt comes first; every text typed into the file
\* name box, both line endings
InitContent ==
  /\ version \in Versions
  /\ editor = NoEditor
  /\ folders = 1
  /\ fs = Disk({})
  /\ unstatable = {}
  /\ rules \in {[workspace |-> Unset, user |-> u] :
                  u \in {Unset, Set(<<classRule>>), Set(<<classRule, cClassRule>>)}}
  /\ Fresh({1})

NextContent ==
  \E i \in Invs :
    \/ Start(i)
    \/ Detect(i)
    \/ \E k \in 1..Len(choices[i]) : PickCustom(i, k)
    \/ \E k \in 1..Len(choices[i]) : PickTemplate(i, k)
    \/ \E name \in NameInputs, eol \in EOLs : EnterName(i, name, eol)
    \/ \E part \in {"header", "source"}, ok \in BOOLEAN : WriteDone(i, part, ok)
    \/ Dismiss(i)

SpecContent == InitContent /\ [][NextContent]_vars

(***************************************************************************)
(* Properties.                                                             *)
(***************************************************************************)
Contents(i) ==
  {generateFileContent(fileName[i], wr[i].eol, rule[i])[part] : part \in {"header", "source"}}

\* the run has made its existence check
Checked(i) == fileName[i] # ""

\* the write step of the run is over: Promise.all has settled and no
\* writeFile call is still under way
WriteStepOver(i) ==
  /\ Checked(i)
  /\ pc[i] \in {"created", "failed"}
  /\ wr[i].header # "pending" /\ wr[i].source # "pending"

FileExistsErrors(i) ==
  {msg[i][k].path : k \in {n \in 1..Len(msg[i]) : msg[i][n].kind = "FileExists"}}

C2_DismissNoSideEffects ==
  \A i \in Invs : pc[i] = "cancelled" =>
    /\ wr[i] = NoWrites
    /\ rules = snap[i]

\* C3, as stated: no write lands on a path at which a file exists at that
\* moment, whether one invocation runs or two interleave.
C3_NeverOverwrites == clobbered = {}

\* C4, as stated: when the write step ends, either both files have been
\* created, or an error is reported and neither has.
C4_NoPartialWrites ==
  \A i \in Invs : (WriteStepOver(i) /\ wr[i] # NoWrites) =>
    \/ wr[i].header = "ok" /\ wr[i].source = "ok"
    \/ /\ \E k \in 1..Len(msg[i]) : msg[i][k].kind = "WriteFailed"
       /\ wr[i].header = "failed" /\ wr[i].source = "failed"

\* the prompt a detection step of run i is taken from, and left by
Detecting(i) == pc[i] = "detect" /\ pc'[i] # "detect"

Detected(i) == det[i] # NoDet

Companion(e) == join(editor.name, e)

\* C5, as stated: an active saved .h file with a .c file of the same name
\* next to it is detected as (c, certain), whatever other companions exist
\* and whatever the language id.
C5_HeaderWithCCompanion ==
  [][\A i \in Invs :
       (/\ Detecting(i) /\ Saved(editor) /\ editor.ext = ".h"
        /\ fs[Companion(".c")] # Absent /\ Companion(".c") \notin unstatable)
       => det'[i] = Result("c", FALSE)]_vars

\* C6, as stated: an active saved .h file with no .c, .cpp, .cc or .cxx file
\* of the same name next to it is detected as (cpp, uncertain), whatever the
\* language id.
C6_HeaderWithoutCompanion ==
  [][\A i \in Invs :
       (/\ Detecting(i) /\ Saved(editor) /\ editor.ext = ".h"
        /\ \A e \in {".c", ".cpp", ".cc", ".cxx"} : fs[Companion(e)] = Absent)
       => det'[i] = Result("cpp", TRUE)]_vars

\* C7: for an active saved file with a definitive extension detection is
\* certain and follows the extension alone: .c gives (c, certain), each of
\* .cpp .cc .cxx .hh .hpp .hxx gives (cpp, certain), for every language id
\* and every set of companion files.
C7_DefinitiveExtension ==
  \A i \in Invs : (Detected(i) /\ Saved(editor)) =>
    /\ editor.ext = ".c" => det[i] = Result("c", FALSE)
    /\ editor.ext \in {".cpp", ".cc", ".cxx", ".hh", ".hpp", ".hxx"}
         => det[i] = Result("cpp", FALSE)

\* a .hh file with language id c and a .c file next to it was detected as C++
C7_Witness ==
  \E i \in Invs :
    /\ Detected(i) /\ Saved(editor)
    /\ editor.ext = ".hh" /\ editor.languageId = "c"
    /\ fs[Companion(".c")] # Absent
    /\ det[i] = Result("cpp", FALSE)

\* C8: with no file path (no active editor, or an untitled document)
\* detection returns (cpp, uncertain) and asks the file system nothing: no
\* path is probed and the stat cache stays as it is.
C8_NoFilePath ==
  [][\A i \in Invs :
       (Detecting(i) /\ ~Saved(editor))
       => /\ det'[i] = Result("cpp", TRUE)
          /\ probes'[i] = {}
          /\ cache' = cache]_vars

\* detection has run on an untitled document whose language id is c
C8_Witness ==
  \E i \in Invs :
    /\ Detected(i)
    /\ editor.kind = "untitled" /\ editor.languageId = "c"
    /\ det[i] = Result("cpp", TRUE) /\ probes[i] = {}

\* C9, as stated: for an active saved file whose extension is none of .c
\* .cpp .cc .cxx .hh .hpp .hxx .h the result follows the language id and is
\* always uncertain: (c, uncertain) for id c, (cpp, uncertain) otherwise.
C9_LanguageIdFallback ==
  \A i \in Invs :
    (/\ Detected(i) /\ Saved(editor)
     /\ editor.ext \notin {".c", ".cpp", ".cc", ".cxx", ".hh", ".hpp", ".hxx", ".h"})
    => det[i] = Result(IF editor.languageId = "c" THEN "c" ELSE "cpp", TRUE)

\* the list on screen is the first selection list of the run
FirstList(i) ==
  /\ pc[i] \in {"pickCustom", "pickTemplate"}
  /\ Cardinality({k \in 1..Len(shown[i]) :
                    shown[i][k] \in {"pickCustom", "pickTemplate"}}) = 1

CustomFor(language) == {r \in Range(getAllPairingRules) : r.language = language}

\* every custom rule of the language is in list c, ahead of every built-in
CustomFirst(c, language) ==
  LET builtIn == {k \in 1..Len(c) : /\ ~IsUseDefault(c[k])
                                    /\ c[k] \notin Range(getAllPairingRules)}
  IN \A r \in CustomFor(language) :
       \E k \in 1..Len(c) : c[k] = r /\ \A j \in builtIn : k < j

\* C10, as stated: whenever the persisted rules hold a rule for the detected
\* language, C or C++, the selection list shows those rules ahead of every
\* built-in template and has a "use defaults" entry.
C10_CustomRulesFirst ==
  \A i \in Invs :
    (FirstList(i) /\ CustomFor(det[i].language) # {})
    => /\ CustomFirst(choices[i], det[i].language)
       /\ \E k \in 1..Len(choices[i]) : IsUseDefault(choices[i][k])

\* list c holds the five built-in templates, each once
BuiltInList(c) ==
  /\ Len(c) = Len(TEMPLATE_RULES)
  /\ {c[k].key : k \in 1..Len(c)} = {TEMPLATE_RULES[k].key : k \in 1..Len(TEMPLATE_RULES)}

\* the detection step of run i finds the language for certain and no custom
\* rule for it
CertainNoCustom(i) ==
  /\ Detecting(i)
  /\ ~det'[i].uncertain
  /\ CustomFor(det'[i].language) = {}

\* C11, as stated: with no custom rule for the detected language and a
\* certain detection the offer to create a rule is shown, and a run that
\* leaves the offer other than by accepting it (declined or dismissed) is at
\* the built-in template list.
C11_OfferFallsThrough ==
  [][\A i \in Invs :
       /\ CertainNoCustom(i) => pc'[i] = "offer"
       /\ (pc[i] = "offer" /\ pc'[i] \notin {"offer", "pickExt"})
            => pc'[i] = "pickTemplate" /\ BuiltInList(choices'[i])]_vars

\* C11, amended: with no custom rule for the detected language and a certain
\* detection, the offer is shown by the first version for either language and
\* by the later versions for C++ only; for C the later versions show the
\* built-in template list at once.  A run leaves the offer in one of three
\* ways: accepted, it goes on to the extension pick; declined with the
\* offer's second button, it shows the built-in template list; dismissed, it
\* ends as cancelled with no list shown, no file written and the settings
\* untouched.
C11_OfferDeclinedOrDismissed ==
  [][\A i \in Invs :
       /\ CertainNoCustom(i) =>
            IF version = "v1" \/ det'[i].language = "cpp"
            THEN pc'[i] = "offer" /\ choices'[i] = <<>>
            ELSE pc'[i] = "pickTemplate" /\ BuiltInList(choices'[i])
       /\ (pc[i] = "offer" /\ pc'[i] # "offer") =>
            \/ pc'[i] = "pickExt"
            \/ /\ pc'[i] = "pickTemplate"
               /\ shown'[i] = Append(shown[i], "pickTemplate")
               /\ BuiltInList(choices'[i])
            \/ /\ pc'[i] = "cancelled"
               /\ shown'[i] = shown[i] /\ choices'[i] = <<>>
               /\ fs' = fs /\ rules' = rules /\ wr'[i] = NoWrites]_vars

\* a run whose offer was declined is at the built-in template list
C11_Witness ==
  \E i \in Invs :
    /\ ~det[i].uncertain
    /\ shown[i] = <<"offer", "pickTemplate">>
    /\ pc[i] = "pickTemplate" /\ BuiltInList(choices[i])

\* the prompts of createCustomRules, which only an accepted offer opens
CreateRulePrompts ==
  {"offer", "pickExt", "inputHeaderExt", "inputSourceExt", "pickScope", "savingRule"}

\* run i has detected, and is not certain of, the language
Uncertain(i) == Detected(i) /\ det[i].uncertain

C13_TemplateOrder ==
  \A i \in Invs : pc[i] = "pickTemplate" =>
    /\ [k \in 1..Len(choices[i]) |-> choices[i][k].key] =
         IF det[i].uncertain
         THEN <<"cpp_empty", "c_empty", "cpp_class", "cpp_struct", "c_struct">>
         ELSE IF det[i].language = "c"
              THEN <<"c_empty", "c_struct", "cpp_empty", "cpp_class", "cpp_struct">>
              ELSE <<"cpp_empty", "cpp_class", "cpp_struct", "c_empty", "c_struct">>
    /\ \A k \in 1..Len(choices[i]) :
         \E t \in Range(TEMPLATE_RULES) :
           /\ t.key = choices[i][k].key
           /\ t.language = choices[i][k].language
           /\ t.isClass = choices[i][k].isClass
           /\ t.isStruct = choices[i][k].isStruct

\* the built-in list is on screen after a certain detection of C, reached
\* through a declined offer
C13_Witness ==
  \E i \in Invs :
    /\ pc[i] = "pickTemplate"
    /\ det[i] = Result("c", FALSE)
    /\ "offer" \in Range(shown[i])
    /\ choices[i][1].key = "c_empty" /\ choices[i][5].key = "cpp_struct"

\* C14, as stated: when detection is certain and a template of the other
\* language is selected from a selection list, the flow reaches the file name
\* prompt only through the confirmation prompt, and a confirmation that is
\* not given ends the run without a write.
C14_MismatchConfirmed ==
  [][\A i \in Invs :
       /\ (/\ pc[i] \in {"pickTemplate", "pickCustom"}
           /\ pc'[i] \notin {"pickTemplate", "pickCustom", "cancelled"}
           /\ ~det[i].uncertain
           /\ rule'[i].language # det[i].language)
          => pc'[i] = "confirm"
       /\ (pc[i] = "confirm" /\ pc'[i] \notin {"confirm", "inputName"})
          => pc'[i] = "cancelled" /\ wr'[i] = NoWrites /\ fs' = fs]_vars

\* C15, as stated: the file name prompt lets a text through exactly when it
\* is an identifier, so every file name that reaches path construction and
\* template substitution is a letter or underscore followed by letters,
\* digits or underscores.
C15_NameIsIdentifier ==
  \A i \in Invs : Checked(i) =>
    /\ IDENTIFIER(chars(fileName[i]))
    /\ fileName[i] \notin {"1abc", "my-name"}

\* the text s stands somewhere in a line of the file content
Contains(content, s) ==
  \E n \in 1..Len(content[2]) :
    \E a \in 1..Len(content[2][n]) : \E b \in a..Len(content[2][n]) :
      concat(SubSeq(content[2][n], a, b)) = s

\* the upper-case form of the valid names typed
UpperOf(name) ==
  CASE name = "Foo" -> "FOO"
    [] name = "my_name" -> "MY_NAME"
    [] name = "_x" -> "_X"

\* run i has written both files from a class template under a valid name
ClassPairWritten(i) ==
  /\ Checked(i) /\ IDENTIFIER(chars(fileName[i]))
  /\ Truthy(rule[i].isClass)
  /\ wr[i].header = "ok" /\ wr[i].source = "ok"

\* C16: for a class template, a valid name N and header extension E the
\* header written contains "#ifndef <UPPER(N)>_H_", "#define <UPPER(N)>_H_"
\* and "class N {", and the source written contains '#include "N<E>"' and
\* "N::N()"; for Foo and .h these are FOO_H_, class Foo {, #include "Foo.h"
\* and Foo::Foo().
C16_ClassBoilerplate ==
  \A i \in Invs : ClassPairWritten(i) =>
    LET N == fileName[i]
        E == rule[i].headerExt
        header == fs[headerPath(i)]
        source == fs[sourcePath(i)]
    IN /\ Contains(header, "#ifndef " \o UpperOf(N) \o "_H_")
       /\ Contains(header, "#define " \o UpperOf(N) \o "_H_")
       /\ Contains(header, "class " \o N \o " {")
       /\ Contains(source, "#include \"" \o N \o E \o "\"")
       /\ Contains(source, N \o "::" \o N \o "()")
       /\ (N = "Foo" /\ E = ".h") =>
            /\ Contains(header, "#ifndef FOO_H_")
            /\ Contains(header, "#define FOO_H_")
            /\ Contains(header, "class Foo {")
            /\ Contains(source, "#include \"Foo.h\"")
            /\ Contains(source, "Foo::Foo()")

\* the class pair my_name.hpp / my_name.cpp has been written
C16_Witness ==
  \E i \in Invs :
    /\ ClassPairWritten(i)
    /\ fileName[i] = "my_name" /\ rule[i].headerExt = ".hpp"
    /\ Contains(fs[sourcePath(i)], "#include \"my_name.hpp\"")
    /\ Contains(fs[headerPath(i)], "#ifndef MY_NAME_H_")

\* the rules of the scope that takes precedence: the workspace scope when it
\* defines rules, else the user scope
Effective ==
  IF rules.workspace.defined THEN rules.workspace.value ELSE OrEmpty(rules.user)

\* C18, as stated: when the workspace scope defines rules, the custom rules
\* and custom extensions in a selection list come from the workspace scope
\* only; the user scope's are used only when the workspace scope defines none.
C18_WorkspaceOverridesUser ==
  \A i \in Invs : (pc[i] \in {"pickCustom", "pickTemplate"} /\ rules = snap[i]) =>
    \A k \in 1..Len(choices[i]) :
      /\ choices[i][k] \in Range(getAllPairingRules) => choices[i][k] \in Range(Effective)
      /\ (~IsUseDefault(choices[i][k]) /\ choices[i][k] \notin Range(getAllPairingRules)) =>
           \/ \E t \in Range(TEMPLATE_RULES) :
                /\ t.headerExt = choices[i][k].headerExt
                /\ t.sourceExt = choices[i][k].sourceExt
           \/ \E r \in Range(Effective) :
                /\ r.headerExt = choices[i][k].headerExt
                /\ r.sourceExt = choices[i][k].sourceExt

\* what the companion files that can be stat'ed now say about a .h file
FromCompanionsNow ==
  IF Probe(Companion(".c")) THEN Result("c", FALSE)
  ELSE IF \E e \in cppExtensions : Probe(Companion(e)) THEN Result("cpp", FALSE)
  ELSE Result("cpp", TRUE)

\* C19, as stated: detection is computed afresh by every invocation; for a
\* .h file whose companions decide the result, the result is the one the
\* companion files present at that moment give, however soon after an
\* earlier invocation and whatever changed in between.
C19_FreshDetection ==
  [][\A i \in Invs :
       (Detecting(i) /\ ReachesProbe(version, editor))
       => det'[i] = FromCompanionsNow]_vars

\* run i has been started
Started(i) == pc[i] \notin {"off", "idle"}

\* C20: with no saved active file and no workspace folder the invocation
\* reports the one error and ends at once: no prompt is shown, nothing is
\* detected or probed, no existence check is made and no file is written.
C20_NoTargetLocation ==
  \A i \in Invs : (Started(i) /\ ~Saved(editor) /\ folders = 0) =>
    /\ pc[i] = "failed"
    /\ msg[i] = <<Error("NoTargetDirectory", NoPath)>>
    /\ shown[i] = <<>>
    /\ ~Detected(i) /\ probes[i] = {}
    /\ ~Checked(i) /\ found[i] = NoPath
    /\ wr[i] = NoWrites
    /\ \A p \in Paths : fs[p] \in {Absent, OldFile}
    /\ rules = snap[i]

\* a run started with no editor and no folder has ended with the error
C20_Witness ==
  \E i \in Invs :
    /\ editor = NoEditor /\ folders = 0
    /\ pc[i] = "failed"
    /\ msg[i] = <<Error("NoTargetDirectory", NoPath)>>

Terminal == {"created", "failed", "cancelled"}

Reported(i) == msg[i] # <<>>

\* the run takes none of its steps: no prompt opens, no existence check is
\* made, no writeFile is called, no error is reported
NoFurtherStep(i) ==
  /\ pc'[i] = pc[i]
  /\ shown'[i] = shown[i]
  /\ msg'[i] = msg[i]
  /\ fileName'[i] = fileName[i] /\ found'[i] = found[i] /\ seen'[i] = seen[i]
  /\ probes'[i] = probes[i]
  /\ \A part \in {"header", "source"} :
       wr'[i][part] = "pending" => wr[i][part] = "pending"

\* C21: every failure is terminal and nothing is retried: once a run has
\* reported an error it opens no further prompt, makes no further existence
\* check and calls no further writeFile; and when every prompt is answered
\* or dismissed and every call settles, the run ends as created, failed or
\* cancelled and stays there.
C21_FailuresTerminal ==
  /\ [][\A i \in Invs : Reported(i) => NoFurtherStep(i)]_vars
  /\ <>[](pc[1] \in Terminal)

C21_Witness ==
  /\ pc[1] = "failed"
  /\ Len(msg[1]) = 1 /\ msg[1][1].kind = "WriteFailed"
  /\ wr[1].header = "failed" /\ wr[1].source = "ok"

\* every companion file that is next to the active file fails its stat
CompanionsUnstatable ==
  \A e \in {".c"} \cup cppExtensions :
    fs[Companion(e)] # Absent => Companion(e) \in unstatable

\* C22: an existence check that fails counts as "does not exist".  Detection
\* of a header whose companion files all fail their stat returns (cpp,
\* uncertain), as it does with no companion; the check of the target paths
\* never names a path whose stat failed, and when no other path is there it
\* finds nothing, no file-exists error is reported and both writes are issued.
C22_FailedCheckIsAbsent ==
  \A i \in Invs :
    /\ (Detected(i) /\ ReachesProbe(version, editor) /\ CompanionsUnstatable)
         => det[i] = Result("cpp", TRUE)
    /\ Checked(i) =>
         /\ found[i] \notin unstatable
         /\ seen[i] \subseteq unstatable =>
              /\ found[i] = NoPath
              /\ FileExistsErrors(i) = {}
              /\ wr[i].header # "none" /\ wr[i].source # "none"

\* a header whose one companion fails its stat was detected, and the run
\* went on to write over a target whose stat failed
C22_Witness ==
  /\ Detected(1) /\ ReachesProbe(version, editor)
  /\ fs[Companion(".cpp")] # Absent /\ Companion(".cpp") \in unstatable
  /\ Checked(1) /\ seen[1] # {} /\ seen[1] \subseteq unstatable
  /\ pc[1] = "created"

UniqueKeys(list) ==
  \A a, b \in 1..Len(list) : a # b => list[a].key # list[b].key

\* C23, as stated: after any sequence of custom-rule creations in the create
\* flow and quick-setup saves in the wizard, no scope's persisted rule list
\* holds two rules with the same key and no selection list on screen holds
\* two entries with the same key.
C23_UniqueKeys ==
  /\ \A scope \in Scopes : UniqueKeys(OrEmpty(getRules(scope)))
  /\ \A i \in Invs : UniqueKeys(choices[i])

OtherScope(scope) == IF scope = "workspace" THEN "user" ELSE "workspace"

\* the wizard's writeRules call has just fulfilled
WizardSaves == wiz.pc = "saving" /\ wiz'.pc = "closed" /\ wiz'.done = "saved"

\* the writeRules call of createCustomRules in run i has just fulfilled
RuleSaves(i) == pc[i] = "savingRule" /\ pc'[i] = "inputName"

\* C24: writeRules(rules, scope) overwrites the scope.  When a call fulfils,
\* the scope holds exactly the list that was written and the other scope is
\* as before; after a quick setup the chosen scope holds the one selected
\* rule and nothing else.
C24_WriteRulesOverwrites ==
  [][/\ WizardSaves =>
          /\ rules'[wiz.scope] = Set(<<wiz.rule>>)
          /\ rules'[OtherScope(wiz.scope)] = rules[OtherScope(wiz.scope)]
     /\ \A i \in Invs : RuleSaves(i) =>
          /\ rules'[pend[i].scope] = Set(pend[i].list)
          /\ rules'[OtherScope(pend[i].scope)] = rules[OtherScope(pend[i].scope)]]_vars

\* a quick setup has replaced the rule a run of the create flow had saved to
\* the same scope
C24_Witness ==
  /\ wiz.pc = "closed" /\ wiz.done = "saved"
  /\ pc[1] = "inputName" /\ pend[1] # NoPend
  /\ Len(OrEmpty(getRules(pend[1].scope))) = 1
  /\ rule[1] \notin Range(OrEmpty(getRules(pend[1].scope)))

\* the run has just picked "Use Default Templates" in the custom-rule list
UsesDefaults(i) == pc[i] = "pickCustom" /\ pc'[i] = "pickTemplate"

\* C25, as stated: after "Use Default Templates" the list offered next holds
\* the built-in pairing rules as they are defined, .h/.cpp for the C++
\* templates and .h/.c for the C templates, not the extensions of a custom
\* rule.
C25_DefaultsKeepExtensions ==
  [][\A i \in Invs : UsesDefaults(i) =>
       /\ Len(choices'[i]) = Len(TEMPLATE_RULES)
       /\ Range(choices'[i]) = Range(TEMPLATE_RULES)]_vars

\* the place of a prompt in the flow of create()
Step(prompt) ==
  CASE prompt = "pickFolder" -> 1
    [] prompt \in {"offer", "pickCustom"} -> 2
    [] prompt = "pickExt" -> 3
    [] prompt = "inputHeaderExt" -> 4
    [] prompt = "inputSourceExt" -> 5
    [] prompt = "pickScope" -> 6
    [] prompt = "pickTemplate" -> 7
    [] prompt = "confirm" -> 8
    [] prompt = "inputName" -> 9

\* C26: each invocation is one linear flow.  Its prompts come in the order
\* of the flow and none comes twice; the file-name prompt is shown only with
\* a rule selected; the existence check is made only with a name entered at
\* that prompt; writes are issued only after the check found neither target
\* path.
C26_LinearFlow ==
  \A i \in Invs :
    /\ \A a, b \in 1..Len(shown[i]) : a < b => Step(shown[i][a]) < Step(shown[i][b])
    /\ "inputName" \in Range(shown[i]) =>
         rule[i] \in Range(choices[i]) \/ rule[i] \in Range(pend[i].list)
    /\ (found[i] # NoPath \/ seen[i] # {}) => Checked(i)
    /\ Checked(i) => shown[i] # <<>> /\ shown[i][Len(shown[i])] = "inputName"
    /\ wr[i] # NoWrites => Checked(i) /\ found[i] = NoPath

\* a run went through the template list, the mismatch warning and the name
\* prompt and created its files
C26_Witness ==
  /\ shown[1] = <<"pickTemplate", "confirm", "inputName">>
  /\ pc[1] = "created"

\* the rule run i created and handed to writeRules
Created(i) == pend[i].list[Len(pend[i].list)]

\* the writeRules call of run i has fulfilled
RuleSaved(i) ==
  /\ pend[i] # NoPend
  /\ pc[i] # "savingRule"
  /\ \A k \in 1..Len(msg[i]) : msg[i][k].kind # "SaveRuleFailed"

\* C27, as stated: when two invocations have each created a custom rule and
\* saved it to the same scope, that scope's rule list holds both rules,
\* however their settings reads and writes interleave.
C27_BothRulesKept ==
  \A i, j \in Invs :
    (i # j /\ RuleSaved(i) /\ RuleSaved(j) /\ pend[i].scope = pend[j].scope)
      => {Created(i), Created(j)} \subseteq Range(OrEmpty(getRules(pend[i].scope)))

\* C28, as stated: saving a newly created custom rule appends it after the
\* rules the scope holds, which all stay, in their order; the other scope is
\* left as it is; and the run goes on with the saved rule.
C28_SaveAppends ==
  [][\A i \in Invs : RuleSaves(i) =>
       /\ rules'[pend[i].scope] =
            Set(Append(OrEmpty(getRules(pend[i].scope)), Created(i)))
       /\ rules'[OtherScope(pend[i].scope)] = rules[OtherScope(pend[i].scope)]
       /\ rule'[i] = Created(i)]_vars

\* the writeRules call of run i was rejected
SaveFailed(i) == \E k \in 1..Len(msg[i]) : msg[i][k].kind = "SaveRuleFailed"

\* the writeRules call of run i has just settled and nothing was persisted
SaveRejected(i) == pc[i] = "savingRule" /\ pc'[i] # "savingRule" /\ rules' = rules

\* C29: when persisting a newly created custom rule fails, the failure is
\* reported, the rules of both scopes are as they were, and the run ends: no
\* file name is asked for, no existence check made and no file written.
C29_SaveFailureEndsRun ==
  /\ [][\A i \in Invs : SaveRejected(i) => SaveFailed(i)' /\ pc'[i] = "failed"]_vars
  /\ [](\A i \in Invs : SaveFailed(i) =>
          /\ pc[i] = "failed"
          /\ \A k \in 1..Len(msg[i]) : msg[i][k].kind = "SaveRuleFailed"
          /\ rules = snap[i]
          /\ "inputName" \notin Range(shown[i])
          /\ fileName[i] = "" /\ wr[i] = NoWrites)

\* a save to a scope that holds a rule was rejected
C29_Witness ==
  /\ SaveFailed(1) /\ pc[1] = "failed"
  /\ getRules(pend[1].scope) # Unset

\* which of the five boilerplate pairs a header written under name N is
Boilerplate(header, N) ==
  CASE Contains(header, "class " \o N \o " {") -> "CPP_CLASS"
    [] Contains(header, "struct " \o N \o " {") -> "CPP_STRUCT"
    [] Contains(header, "typedef struct {") -> "C_STRUCT"
    [] Contains(header, "// Declarations for " \o N \o ".c") -> "C_EMPTY"
    [] Contains(header, "// Declarations for " \o N \o ".cpp") -> "CPP_EMPTY"
    [] OTHER -> "none"

\* C30, as stated: the boilerplate written agrees with the language of the
\* selected rule, for every rule the settings can hold: a rule for C gives
\* the C typedef-struct or the C empty pair, never the C++ class or struct
\* pair, and a rule for C++ gives one of the three C++ pairs.
C30_BoilerplateAgrees ==
  \A i \in Invs : (Checked(i) /\ wr[i].header = "ok") =>
    LET b == Boilerplate(fs[headerPath(i)], fileName[i])
    IN /\ rule[i].language = "c" => b \in {"C_STRUCT", "C_EMPTY"}
       /\ rule[i].language = "cpp" => b \in {"CPP_CLASS", "CPP_STRUCT", "CPP_EMPTY"}

====
